---- MODULE Spec2Model ----
(***************************************************************************)
(* TrainPI / SkillSpring: the Next.js route handlers, the career page's    *)
(* skill and interest selection, and the dashboard load, as state machines.*)
(*                                                                         *)
(* The specifications share the variables; each one moves only its own     *)
(* part of the state:                                                      *)
(*   SpecRoutes          the stateless route handlers and their stores     *)
(*   SpecCareer          app/career/page.tsx, roadmap tab                  *)
(*   SpecDashboard       frontend/app/dashboard/page.tsx, the load         *)
(*   SpecCompleteLesson  frontend/app/dashboard/page.tsx, completeLesson   *)
(*   SpecUploadCard      the UploadCard component                          *)
(*   SpecLearn           the learn page: chat, uploads, files              *)
(*   SpecLearnSettings   the learn page: experience level and requests     *)
(*   SpecSettings        the learn page: both selects, Apply, chat requests*)
(*   SpecUploadBatch     the learn page: one batch of files at a time      *)
(*   SpecWizards         the assessments of app/career/discover/page.tsx   *)
(*                       and app/career/page.tsx                           *)
(*   SpecQuiz            the QuizPlayer component                          *)
(*   SpecRoadmap         app/career/roadmap/page.tsx and RoadmapTimeline   *)
(***************************************************************************)
EXTENDS Integers, Sequences, FiniteSets, TLC

VARIABLES
    \* route handlers
    request,            \* the request being answered: [route, ...inputs]
    response,           \* the response to it: [status, json, body]
    user_lessons,       \* rows of the Supabase table user_lessons
    savedConversations, \* conversations the chat-save handler went on to save
    \* career page (roadmap tab)
    selectedSkills, selectedInterests, customSkill, customInterest,
    activeTab,          \* the tab of the roadmap generator that is showing
    queued,             \* state updates queued by handlers since the last render
    shownSkills,        \* what getAvailableSkillSuggestions() gave the last render
    shownInterests,     \* what getAvailableInterestSuggestions() gave the last render
    \* dashboard page
    session, dashboardData, loading, error, isRefreshing,
    runs,               \* the invocations of fetchDashboardData
    toasts,             \* titles of the toasts shown so far
    completionEvent,    \* the last request completeLesson sent
    \* UploadCard
    uploadedFile, isUploading,
    inputValue,         \* the file the rendered file input holds
    onUploadCalls,      \* the files onUpload was called with, in order
    lastAlert,          \* the text of the last alert()
    \* learn page
    messages, inputMessage, isLoading, uploadedFiles,
    experienceLevel, framework, appliedExperienceLevel, appliedFramework,
    now,                \* Date.now()
    tasks,              \* the calls of handleFileUpload and handleSendMessage
                        \* that wait for a fetch
    started,            \* how many such calls there have been
    \* the page the browser shows
    path,
    \* career discovery page
    discoverCurrentStep, discoverAnswers, discoverCareers, discoverIsLoading,
    discoverShowResults,
    discoverRequest,    \* the body sent to the pathfinder, while it is awaited
    discoverOutcome,    \* what the last fetch of the pathfinder came to
    \* career page (assessment)
    showAssessment, assessmentCurrentStep, assessmentAnswers, assessmentIsLoading,
    assessmentShowResults,
    assessmentTimer,    \* whether the timeout of handleNext is pending
    \* QuizPlayer
    quizItems, currentIndex, selectedOption, isCorrect, score, quizShowResults,
    \* roadmap page
    searchParams,       \* the career parameter of the URL
    roadmapData, roadmapIsLoading, roadmapError,
    roadmapFetches,     \* the calls of generateRoadmap that wait for their fetch
    completedSteps      \* of the RoadmapTimeline the page shows

routeVars == <<request, response, user_lessons, savedConversations>>
careerVars == <<selectedSkills, selectedInterests, customSkill, customInterest,
                activeTab, queued, shownSkills, shownInterests>>
dashVars == <<session, dashboardData, loading, error, isRefreshing, runs, toasts,
              completionEvent>>
cardVars == <<uploadedFile, isUploading, inputValue, onUploadCalls, lastAlert>>
learnVars == <<messages, inputMessage, isLoading, uploadedFiles, experienceLevel,
               framework, appliedExperienceLevel, appliedFramework, now, tasks,
               started>>
discoverVars == <<discoverCurrentStep, discoverAnswers, discoverCareers,
                  discoverIsLoading, discoverShowResults, discoverRequest,
                  discoverOutcome>>
assessmentVars == <<showAssessment, assessmentCurrentStep, assessmentAnswers,
                    assessmentIsLoading, assessmentShowResults, assessmentTimer>>
quizVars == <<quizItems, currentIndex, selectedOption, isCorrect, score,
              quizShowResults>>
roadmapVars == <<searchParams, roadmapData, roadmapIsLoading, roadmapError,
                 roadmapFetches, completedSteps>>
pageVars == <<path, discoverVars, assessmentVars, quizVars, roadmapVars>>
vars == <<routeVars, careerVars, dashVars, cardVars, learnVars, pageVars>>

(***************************************************************************)
(* JavaScript values as they arrive in a parsed JSON body or a query.      *)
(***************************************************************************)
Undef == [t |-> "undefined"]
JNull == [t |-> "null"]
JStr(s) == [t |-> "string", v |-> s]
JArr(a) == [t |-> "array", v |-> a]

\* !x
Falsy(x) ==
    \/ x.t \in {"undefined", "null"}
    \/ x.t = "string" /\ x.v = ""

\* x.length === 0 (strings and arrays have a length; nothing else is modelled
\* with one)
LengthIsZero(x) ==
    \/ x.t = "array" /\ Len(x.v) = 0
    \/ x.t = "string" /\ x.v = ""

\* a || b
OrElse(a, b) == IF Falsy(a) THEN b ELSE a

\* A JSON object body as a function from field names to values.
NoFields == [f \in {} |-> Undef]
Field(body, name) == IF name \in DOMAIN body THEN body[name] ELSE Undef

\* NextResponse.json(body, {status})
Json(status, body) == [status |-> status, json |-> TRUE, body |-> body]
\* What the framework answers when the handler itself throws: a bare 500.
Unhandled == [status |-> 500, json |-> FALSE, body |-> NoFields]
\* A streamed (non-JSON) reply.
Stream == [status |-> 200, json |-> FALSE, body |-> NoFields]

(***************************************************************************)
(* GET /api/career/match                                                   *)
(***************************************************************************)
MutantCareersUnsorted ==
    << [id |-> "1", title |-> "Software Engineer", matchScore |-> 88],
       [id |-> "2", title |-> "Data Scientist", matchScore |-> 95],
       [id |-> "3", title |-> "UX Designer", matchScore |-> 82],
       [id |-> "4", title |-> "Product Manager", matchScore |-> 78],
       [id |-> "5", title |-> "DevOps Engineer", matchScore |-> 75] >>

mockCareers ==
    << [id |-> "1", title |-> "Software Engineer", matchScore |-> 95],
       [id |-> "2", title |-> "Data Scientist", matchScore |-> 88],
       [id |-> "3", title |-> "UX Designer", matchScore |-> 82],
       [id |-> "4", title |-> "Product Manager", matchScore |-> 78],
       [id |-> "5", title |-> "DevOps Engineer", matchScore |-> 75] >>

\* The query strings tried for ?answers= (the handler reads and ignores it).
AnswersInputs == {Undef, JStr(""), JStr("1,2,3,4,5"), JStr("5,5,5,5,5,5,5,5,5,5")}

CareerMatchResponse(answers) == Json(200, [careers |-> mockCareers])

CareerMatchGET ==
    \E answers \in AnswersInputs :
        /\ request' = [route |-> "career/match", answers |-> answers]
        /\ response' = CareerMatchResponse(answers)
        /\ UNCHANGED <<user_lessons, savedConversations, careerVars, dashVars, cardVars,
                       learnVars, pageVars>>

(***************************************************************************)
(* GET /api/career/roadmap                                                 *)
(***************************************************************************)
\* The roles the repository knows: the titles of the career taxonomy.
KnownRoles == {mockCareers[i].title : i \in DOMAIN mockCareers}

RoleInputs == {Undef, JStr(""), JStr("Software Engineer"), JStr("Data Scientist"),
               JStr("UX Designer"), JStr("Astronaut"), JStr("software engineer")}

MutantMilestonesTwoTiers ==
    << [id |-> "1", level |-> "Foundational", title |-> "Programming Basics",
        estimatedHours |-> 120],
       [id |-> "3", level |-> "Advanced", title |-> "System Design & Architecture",
        estimatedHours |-> 150] >>

mockMilestones ==
    << [id |-> "1", level |-> "Foundational", title |-> "Programming Basics",
        estimatedHours |-> 120],
       [id |-> "2", level |-> "Intermediate", title |-> "Web Development",
        estimatedHours |-> 200],
       [id |-> "3", level |-> "Advanced", title |-> "System Design & Architecture",
        estimatedHours |-> 150] >>

MutantRoadmapDefaultsToSecondRole(role) ==
    [role |-> OrElse(role, JStr("Data Scientist")).v, milestones |-> mockMilestones]

\* role: role || "Software Engineer"
mockRoadmap(role) ==
    [role |-> OrElse(role, JStr("Software Engineer")).v, milestones |-> mockMilestones]

CareerRoadmapResponse(role) == Json(200, mockRoadmap(role))

CareerRoadmapGET ==
    \E role \in RoleInputs :
        /\ request' = [route |-> "career/roadmap", role |-> role]
        /\ response' = CareerRoadmapResponse(role)
        /\ UNCHANGED <<user_lessons, savedConversations, careerVars, dashVars, cardVars,
                       learnVars, pageVars>>

(***************************************************************************)
(* JSON request bodies.  req.json() either throws (the body is no JSON),   *)
(* gives null, or gives an object.                                         *)
(***************************************************************************)
Malformed == [parse |-> "throws"]
NullBody == [parse |-> "null"]
ObjectBody(fields) == [parse |-> "object", fields |-> fields]

\* Values tried for a required string field.
FieldInputs(v) == {Undef, JNull, JStr(""), JStr(v)}

(***************************************************************************)
(* POST /api/chat/save                                                     *)
(***************************************************************************)
MessagesInputs == {Undef, JNull, JArr(<<>>), JArr(<<"hi">>), JArr(<<"hi", "ok">>)}

ChatSaveBodies ==
    {Malformed, NullBody} \cup
    { ObjectBody([userId |-> u, conversationId |-> c, messages |-> m]) :
        u \in FieldInputs("u1"), c \in FieldInputs("c1"), m \in MessagesInputs }

\* Destructuring null throws inside the try, as a failed req.json() does.
ChatSaveThrows(body) == body.parse # "object"

\* The first failing check of lines 7-15, or "ok".
ChatSaveValidation(body) ==
    IF Falsy(body.fields.userId) THEN "User ID is required"
    ELSE IF Falsy(body.fields.conversationId) THEN "Conversation ID is required"
    ELSE IF Falsy(body.fields.messages) \/ LengthIsZero(body.fields.messages)
         THEN "No messages to save"
    ELSE "ok"

MutantChatSaveNoMessagesCheck(body) ==
    IF ChatSaveThrows(body)
    THEN Json(500, [message |-> "Failed to save conversation"])
    ELSE IF Falsy(body.fields.userId) THEN Json(400, [message |-> "User ID is required"])
    ELSE IF Falsy(body.fields.conversationId)
         THEN Json(400, [message |-> "Conversation ID is required"])
    ELSE Json(200, [message |-> "Conversation saved successfully",
                    conversationId |-> body.fields.conversationId.v])

ChatSaveResponse(body) ==
    IF ChatSaveThrows(body)
    THEN Json(500, [message |-> "Failed to save conversation"])
    ELSE IF ChatSaveValidation(body) # "ok"
    THEN Json(400, [message |-> ChatSaveValidation(body)])
    ELSE Json(200, [message |-> "Conversation saved successfully",
                    conversationId |-> body.fields.conversationId.v])

\* The save itself (lines 17-27) is reached only past the three checks.
ChatSaveStore(body, saved) ==
    IF ~ChatSaveThrows(body) /\ ChatSaveValidation(body) = "ok"
    THEN saved \cup {<<body.fields.userId.v, body.fields.conversationId.v>>}
    ELSE saved

ChatSavePOST ==
    \E body \in ChatSaveBodies :
        /\ request' = [route |-> "chat/save", body |-> body]
        /\ response' = ChatSaveResponse(body)
        /\ savedConversations' = ChatSaveStore(body, savedConversations)
        /\ UNCHANGED <<user_lessons, careerVars, dashVars, cardVars, learnVars, pageVars>>

(***************************************************************************)
(* POST /api/chat/upload                                                   *)
(***************************************************************************)
\* req.formData() throws when the body is no form; otherwise the "file"
\* entry is absent (null) or a File.
NotAForm == [parse |-> "throws"]
Form(file) == [parse |-> "form", file |-> file]
File(name) == [t |-> "file", name |-> name]

UploadForms == {NotAForm, Form(JNull), Form(File("notes.pdf")), Form(File("a.txt"))}
ConversationIdInputs == {JNull, JStr(""), JStr("c1")}
Uuids == {"uuid-1", "uuid-2"}

ChatUploadResponse(form, conversation_id, fileId, freshId) ==
    IF form.parse = "throws" THEN Json(500, [error |-> "Failed to upload file"])
    ELSE IF form.file.t = "null" THEN Json(400, [error |-> "No file uploaded"])
    ELSE Json(200, [message |-> "File uploaded successfully",
                    fileId |-> fileId,
                    url |-> <<"/uploaded-files/", fileId, "-", form.file.name>>,
                    conversation_id |-> OrElse(conversation_id, JStr(freshId)).v])

ChatUploadPOST ==
    \E form \in UploadForms, cid \in ConversationIdInputs, fileId \in Uuids, freshId \in Uuids :
        /\ request' = [route |-> "chat/upload", form |-> form, conversation_id |-> cid]
        /\ response' = ChatUploadResponse(form, cid, fileId, freshId)
        /\ UNCHANGED <<user_lessons, savedConversations, careerVars, dashVars, cardVars,
                       learnVars, pageVars>>

(***************************************************************************)
(* POST /api/lessons/save  (Supabase table user_lessons)                   *)
(***************************************************************************)
\* The most rows the table is let grow to.
MaxRows == 1

LessonBodies ==
    {Malformed, NullBody} \cup
    { ObjectBody([lesson_id |-> l, user_id |-> u, file_name |-> f, framework |-> w]) :
        l \in FieldInputs("L1"), u \in FieldInputs("u1"), f \in FieldInputs("a.pdf"),
        w \in {Undef, JStr("python")} }

\* What the insert does: it succeeds, it returns {error}, or the client throws.
InsertOutcomes == {"ok", "error", "throws"}

\* req.json() and the destructuring are outside the try (line 5).
LessonSaveThrows(body) == body.parse # "object"

LessonSaveInvalid(body) ==
    \/ Falsy(body.fields.lesson_id)
    \/ Falsy(body.fields.user_id)
    \/ Falsy(body.fields.file_name)

LessonRow(body) ==
    [lesson_id |-> body.fields.lesson_id.v, user_id |-> body.fields.user_id.v,
     file_name |-> body.fields.file_name.v, framework |-> body.fields.framework]

MutantLessonSaveIgnoresInsertError(body, outcome) ==
    IF LessonSaveThrows(body) THEN Unhandled
    ELSE IF LessonSaveInvalid(body) THEN Json(400, [message |-> "Missing required fields"])
    ELSE IF outcome = "throws"
    THEN Json(500, [message |-> "An unexpected error occurred", error |-> "fetch failed"])
    ELSE Json(200, [message |-> "Lesson saved successfully", data |-> <<LessonRow(body)>>])

LessonSaveResponse(body, outcome) ==
    IF LessonSaveThrows(body) THEN Unhandled
    ELSE IF LessonSaveInvalid(body) THEN Json(400, [message |-> "Missing required fields"])
    ELSE IF outcome = "error"
    THEN Json(500, [message |-> "Failed to save lesson", error |-> "insert failed"])
    ELSE IF outcome = "throws"
    THEN Json(500, [message |-> "An unexpected error occurred", error |-> "fetch failed"])
    ELSE Json(200, [message |-> "Lesson saved successfully", data |-> <<LessonRow(body)>>])

MutantLessonInsertBeforeValidation(body, outcome, rows) ==
    IF ~LessonSaveThrows(body) /\ outcome \notin {"error", "throws"}
    THEN Append(rows, [lesson_id |-> Field(body.fields, "lesson_id"),
                       user_id |-> Field(body.fields, "user_id")])
    ELSE rows

\* The insert (lines 12-23) is reached only past the check of line 7.
LessonSaveStore(body, outcome, rows) ==
    IF ~LessonSaveThrows(body) /\ ~LessonSaveInvalid(body) /\ outcome = "ok"
    THEN Append(rows, LessonRow(body))
    ELSE rows

\* The insert has an outcome only when the handler reaches it.
InsertReached(body) == ~LessonSaveThrows(body) /\ ~LessonSaveInvalid(body)

LessonSavePOST ==
    \E body \in LessonBodies, outcome \in InsertOutcomes \cup {"not reached"} :
        /\ (outcome = "not reached") = ~InsertReached(body)
        /\ outcome = "ok" => Len(user_lessons) < MaxRows
        /\ request' = [route |-> "lessons/save", body |-> body, insert |-> outcome]
        /\ response' = LessonSaveResponse(body, outcome)
        /\ user_lessons' = LessonSaveStore(body, outcome, user_lessons)
        /\ UNCHANGED <<savedConversations, careerVars, dashVars, cardVars, learnVars, pageVars>>

(***************************************************************************)
(* Upstream replies seen by the proxy routes: fetch() throws, or gives a   *)
(* response whose ok flag is false, or an ok response whose json() throws, *)
(* or an ok response with a parsed payload.                                *)
(***************************************************************************)
FetchThrows == [kind |-> "throws"]
NotOk == [kind |-> "response", ok |-> FALSE]
OkBadJson == [kind |-> "response", ok |-> TRUE, json |-> "throws"]
OkNull == [kind |-> "response", ok |-> TRUE, json |-> "null"]
OkArray(a) == [kind |-> "response", ok |-> TRUE, json |-> "array", data |-> a]
OkObject(fields) == [kind |-> "response", ok |-> TRUE, json |-> "object", data |-> fields]

(***************************************************************************)
(* GET /api/interests                                                      *)
(***************************************************************************)
fallbackInterests ==
    <<"Technology", "Design", "Data Science", "Business", "AI/ML", "Cloud Computing",
      "Cybersecurity", "Marketing", "Finance", "Healthcare">>

InterestsUpstream ==
    {FetchThrows, NotOk, OkBadJson, OkNull,
     OkObject(NoFields),
     OkObject([interests |-> JArr(<<>>)]),
     OkObject([interests |-> JArr(<<"Robotics">>)]),
     OkObject([interests |-> JArr(<<"Robotics", "Design">>)])}

\* Reading data.interests of null throws; so does json() on a bad payload.
InterestsThrows(up) ==
    \/ up.kind = "throws"
    \/ up.kind = "response" /\ up.ok /\ up.json \in {"throws", "null"}

InterestsResponse(up) ==
    IF InterestsThrows(up) THEN Json(500, [interests |-> fallbackInterests])
    ELSE IF ~up.ok THEN Json(200, [interests |-> fallbackInterests, source |-> "fallback"])
    ELSE Json(200, [interests |-> OrElse(Field(up.data, "interests"), JArr(<<>>)).v])

InterestsGET ==
    \E up \in InterestsUpstream :
        /\ request' = [route |-> "interests", upstream |-> up]
        /\ response' = InterestsResponse(up)
        /\ UNCHANGED <<user_lessons, savedConversations, careerVars, dashVars, cardVars,
                       learnVars, pageVars>>

(***************************************************************************)
(* GET /api/skills                                                         *)
(***************************************************************************)
fallbackSkills ==
    <<"JavaScript", "Python", "React", "Node.js", "TypeScript", "HTML", "CSS", "Java",
      "C++", "SQL", "MongoDB", "PostgreSQL", "AWS", "Docker", "Kubernetes", "Git",
      "Linux", "Machine Learning", "Data Analysis", "UI/UX Design",
      "Project Management", "Agile", "Scrum", "DevOps">>

SkillsUpstream ==
    {FetchThrows, NotOk, OkBadJson, OkNull,
     OkArray(<<>>), OkArray(<<"Rust", "Go">>),
     OkObject(NoFields), OkObject([skills |-> JArr(<<"Go">>)])}

FrameworksUpstream ==
    {FetchThrows, NotOk, OkBadJson, OkNull,
     OkArray(<<>>), OkArray(<<"Go", "React">>), OkObject(NoFields)}

\* Array.from(new Set(a)): the first occurrence of each element, in order.
RECURSIVE Unique(_)
Unique(a) ==
    IF a = <<>> THEN <<>>
    ELSE LET front == Unique(SubSeq(a, 1, Len(a) - 1))
             last == a[Len(a)]
         IN IF \E i \in DOMAIN front : front[i] = last THEN front ELSE Append(front, last)

\* Array.isArray(data) ? data : data.skills || []   (data.skills of null throws)
SkillsDataThrows(up) ==
    \/ up.kind = "throws"
    \/ up.kind = "response" /\ up.ok /\ up.json \in {"throws", "null"}

SkillsData(up) ==
    IF ~up.ok THEN <<>>
    ELSE IF up.json = "array" THEN up.data
    ELSE OrElse(Field(up.data, "skills"), JArr(<<>>)).v

\* Array.isArray(data) ? data : []   (no property is read: null does not throw)
FrameworksDataThrows(up) ==
    \/ up.kind = "throws"
    \/ up.kind = "response" /\ up.ok /\ up.json = "throws"

FrameworksData(up) ==
    IF up.ok /\ up.json = "array" THEN up.data ELSE <<>>

combinedSkills(upS, upF) == Unique(SkillsData(upS) \o FrameworksData(upF))

SkillsResponse(upS, upF) ==
    IF SkillsDataThrows(upS) \/ FrameworksDataThrows(upF)
    THEN Json(500, [skills |-> fallbackSkills])
    ELSE Json(200, [skills |-> IF Len(combinedSkills(upS, upF)) > 0
                               THEN combinedSkills(upS, upF) ELSE fallbackSkills])

SkillsGET ==
    \E upS \in SkillsUpstream, upF \in FrameworksUpstream :
        /\ request' = [route |-> "skills", upstream |-> upS, frameworks |-> upF]
        /\ response' = SkillsResponse(upS, upF)
        /\ UNCHANGED <<user_lessons, savedConversations, careerVars, dashVars, cardVars,
                       learnVars, pageVars>>

(***************************************************************************)
(* POST /api/chat                                                          *)
(***************************************************************************)
ChatBodies ==
    {Malformed, NullBody,
     ObjectBody([messages |-> JArr(<<"hi">>), explanationLevel |-> JStr("intern")]),
     ObjectBody([messages |-> JArr(<<"hi">>), explanationLevel |-> Undef])}

\* streamText resolves or rejects (provider failure, timeout).
StreamOutcomes == {"ok", "throws"}

ChatResponse(body, outcome) ==
    IF body.parse # "object" \/ outcome = "throws"
    THEN [status |-> 500, json |-> TRUE, body |-> [error |-> "Internal Server Error"]]
    ELSE Stream

\* How many times the handler calls streamText: once (line 23) when the body
\* parsed, and the catch of line 30 answers without calling it again.
ChatStreamCalls(body) == IF body.parse = "object" THEN 1 ELSE 0

\* The outcome of streamText exists only when the handler reaches the call.
StreamReached(body) == ChatStreamCalls(body) > 0

ChatPOST ==
    \E body \in ChatBodies, outcome \in StreamOutcomes \cup {"not reached"} :
        /\ (outcome = "not reached") = ~StreamReached(body)
        /\ request' = [route |-> "chat", body |-> body, stream |-> outcome,
                       streamCalls |-> ChatStreamCalls(body)]
        /\ response' = ChatResponse(body, outcome)
        /\ UNCHANGED <<user_lessons, savedConversations, careerVars, dashVars, cardVars,
                       learnVars, pageVars>>

(***************************************************************************)
(* app/career/page.tsx, roadmap tab.  Strings are sequences of characters, *)
(* so that trim() and includes() work on what the user typed.              *)
(***************************************************************************)
Sp == " "
React == <<"R", "e", "a", "c", "t">>
SQL == <<"S", "Q", "L">>
Figma == <<"F", "i", "g", "m", "a">>
Design == <<"D", "e", "s", "i", "g", "n">>
Finance == <<"F", "i", "n", "a", "n", "c", "e">>

\* The catalogue entries the model carries (of the 20 skills and 12 interests).
skillSuggestions ==
    << [name |-> React, category |-> "Technology"],
       [name |-> SQL, category |-> "Technology"],
       [name |-> Figma, category |-> "Design"] >>

interestSuggestions == << [name |-> Design], [name |-> Finance] >>

\* What the user types into the two text inputs.
CustomSkillInputs == { <<Sp>>, <<Sp>> \o SQL \o <<Sp>>, <<"s", "q", "l">> }
CustomInterestInputs == { <<Sp>> \o Design, <<"d", "e", "s", "i", "g", "n">> }

\* The most entries either list is let grow to.
MaxSelected == 2

\* String.prototype.trim
RECURSIVE TrimStart(_)
TrimStart(s) == IF s # <<>> /\ Head(s) = Sp THEN TrimStart(Tail(s)) ELSE s
RECURSIVE TrimEnd(_)
TrimEnd(s) ==
    IF s # <<>> /\ s[Len(s)] = Sp THEN TrimEnd(SubSeq(s, 1, Len(s) - 1)) ELSE s
Trim(s) == TrimEnd(TrimStart(s))

\* Array.prototype.includes (strict equality of strings)
Includes(list, x) == \E i \in DOMAIN list : list[i] = x

\* Array.prototype.filter(e => e !== x)
RECURSIVE Without(_, _)
Without(list, x) ==
    IF list = <<>> THEN <<>>
    ELSE IF Head(list) = x THEN Without(Tail(list), x)
    ELSE <<Head(list)>> \o Without(Tail(list), x)

\* A state update that a handler has queued: none, or the new value.
None == <<>>
Some(x) == <<x>>
NothingQueued ==
    [selectedSkills |-> None, selectedInterests |-> None,
     customSkill |-> None, customInterest |-> None]

Categories == {skillSuggestions[i].category : i \in DOMAIN skillSuggestions}

\* entries.map(e => e.name)
Names(entries) == [i \in DOMAIN entries |-> entries[i].name]

\* skillSuggestions.reduce(...): the names of each category, in catalogue order
groupedSkills ==
    [c \in Categories |->
        LET InC(e) == e.category = c IN Names(SelectSeq(skillSuggestions, InC))]

RECURSIVE NotIn(_, _)
NotIn(names, selected) ==
    IF names = <<>> THEN <<>>
    ELSE (IF Includes(selected, Head(names)) THEN <<>> ELSE <<Head(names)>>)
         \o NotIn(Tail(names), selected)

MutantSuggestAllSkills(selected) == groupedSkills

\* Per category, the skills not selected; a category with none left is dropped.
getAvailableSkillSuggestions(selected) ==
    [c \in {d \in Categories : NotIn(groupedSkills[d], selected) # <<>>} |->
        NotIn(groupedSkills[c], selected)]

getAvailableInterestSuggestions(selected) ==
    NotIn(Names(interestSuggestions), selected)

MutantAddAlways(list, x) == Some(Append(list, x))

\* if (!list.includes(x)) set([...list, x]): the queued value, if any
AddIfAbsent(list, x) == IF Includes(list, x) THEN None ELSE Some(Append(list, x))

\* Handlers read the state of the render they were created in and queue the
\* new value; a later call in the same render replaces the queued value.
addSkill(skill) ==
    /\ activeTab = "skills"
    /\ Len(selectedSkills) < MaxSelected
    /\ AddIfAbsent(selectedSkills, skill) # None
    /\ queued' = [queued EXCEPT !.selectedSkills = AddIfAbsent(selectedSkills, skill)]
    /\ UNCHANGED <<selectedSkills, selectedInterests, customSkill, customInterest,
                   activeTab, shownSkills, shownInterests, routeVars, dashVars, cardVars, learnVars, pageVars>>

removeSkill(skill) ==
    /\ activeTab = "skills"
    /\ queued' = [queued EXCEPT !.selectedSkills = Some(Without(selectedSkills, skill))]
    /\ UNCHANGED <<selectedSkills, selectedInterests, customSkill, customInterest,
                   activeTab, shownSkills, shownInterests, routeVars, dashVars, cardVars, learnVars, pageVars>>

addCustomSkill ==
    /\ activeTab = "skills"
    /\ Len(selectedSkills) < MaxSelected
    /\ Trim(customSkill) # <<>>
    /\ AddIfAbsent(selectedSkills, Trim(customSkill)) # None
    /\ queued' = [queued EXCEPT
                    !.selectedSkills = AddIfAbsent(selectedSkills, Trim(customSkill)),
                    !.customSkill = Some(<<>>)]
    /\ UNCHANGED <<selectedSkills, selectedInterests, customSkill, customInterest,
                   activeTab, shownSkills, shownInterests, routeVars, dashVars, cardVars, learnVars, pageVars>>

addInterest(interest) ==
    /\ activeTab = "interests"
    /\ Len(selectedInterests) < MaxSelected
    /\ AddIfAbsent(selectedInterests, interest) # None
    /\ queued' = [queued EXCEPT
                    !.selectedInterests = AddIfAbsent(selectedInterests, interest)]
    /\ UNCHANGED <<selectedSkills, selectedInterests, customSkill, customInterest,
                   activeTab, shownSkills, shownInterests, routeVars, dashVars, cardVars, learnVars, pageVars>>

removeInterest(interest) ==
    /\ activeTab = "interests"
    /\ queued' = [queued EXCEPT
                    !.selectedInterests = Some(Without(selectedInterests, interest))]
    /\ UNCHANGED <<selectedSkills, selectedInterests, customSkill, customInterest,
                   activeTab, shownSkills, shownInterests, routeVars, dashVars, cardVars, learnVars, pageVars>>

addCustomInterest ==
    /\ activeTab = "interests"
    /\ Len(selectedInterests) < MaxSelected
    /\ Trim(customInterest) # <<>>
    /\ AddIfAbsent(selectedInterests, Trim(customInterest)) # None
    /\ queued' = [queued EXCEPT
                    !.selectedInterests = AddIfAbsent(selectedInterests, Trim(customInterest)),
                    !.customInterest = Some(<<>>)]
    /\ UNCHANGED <<selectedSkills, selectedInterests, customSkill, customInterest,
                   activeTab, shownSkills, shownInterests, routeVars, dashVars, cardVars, learnVars, pageVars>>

\* onChange of the two text inputs
setCustomSkill(text) ==
    /\ activeTab = "skills"
    /\ queued' = [queued EXCEPT !.customSkill = Some(text)]
    /\ UNCHANGED <<selectedSkills, selectedInterests, customSkill, customInterest,
                   activeTab, shownSkills, shownInterests, routeVars, dashVars, cardVars, learnVars, pageVars>>

setCustomInterest(text) ==
    /\ activeTab = "interests"
    /\ queued' = [queued EXCEPT !.customInterest = Some(text)]
    /\ UNCHANGED <<selectedSkills, selectedInterests, customSkill, customInterest,
                   activeTab, shownSkills, shownInterests, routeVars, dashVars, cardVars, learnVars, pageVars>>

Commit(update, old) == IF update = None THEN old ELSE update[1]

\* A render that keeps the suggestion lists of the render before it.
MutantRenderKeepsSuggestions ==
    /\ queued # NothingQueued
    /\ selectedSkills' = Commit(queued.selectedSkills, selectedSkills)
    /\ selectedInterests' = Commit(queued.selectedInterests, selectedInterests)
    /\ customSkill' = Commit(queued.customSkill, customSkill)
    /\ customInterest' = Commit(queued.customInterest, customInterest)
    /\ queued' = NothingQueued
    /\ shownSkills' = IF Len(selectedSkills') < Len(selectedSkills)
                      THEN shownSkills
                      ELSE getAvailableSkillSuggestions(selectedSkills')
    /\ shownInterests' = getAvailableInterestSuggestions(selectedInterests')
    /\ UNCHANGED <<activeTab, routeVars, dashVars, cardVars, learnVars, pageVars>>

\* React re-renders: the queued values become the state, and the suggestion
\* lists are computed from it (lines 556-560 and 621-623).
Render ==
    /\ queued # NothingQueued
    /\ selectedSkills' = Commit(queued.selectedSkills, selectedSkills)
    /\ selectedInterests' = Commit(queued.selectedInterests, selectedInterests)
    /\ customSkill' = Commit(queued.customSkill, customSkill)
    /\ customInterest' = Commit(queued.customInterest, customInterest)
    /\ queued' = NothingQueued
    /\ shownSkills' = getAvailableSkillSuggestions(selectedSkills')
    /\ shownInterests' = getAvailableInterestSuggestions(selectedInterests')
    /\ UNCHANGED <<activeTab, routeVars, dashVars, cardVars, learnVars, pageVars>>

\* A click on a tab trigger: its own event, handled once the page has rendered.
TabNames == {"target", "interests", "skills"}

selectTab(tab) ==
    /\ queued = NothingQueued
    /\ tab # activeTab
    /\ activeTab' = tab
    /\ UNCHANGED <<selectedSkills, selectedInterests, customSkill, customInterest,
                   queued, shownSkills, shownInterests, routeVars, dashVars, cardVars, learnVars, pageVars>>

(***************************************************************************)
(* frontend/app/dashboard/page.tsx                                         *)
(***************************************************************************)
Null == [t |-> "null"]
NoSession == "none"
Users == {"u1", "u2"}

\* How many times the effect is let run fetchDashboardData.
MaxRuns == 2

\* Every part of the dataset records where its values come from.
MockProgress == [lessons_completed |-> "demo", current_streak |-> "demo"]
MockRecommendations == [next_lessons |-> "demo", skill_gaps |-> "demo"]

generateMockData ==
    [t |-> "data",
     progress |-> MockProgress,
     recent_activity |-> "demo",
     achievements |-> "demo",
     recommendations |-> MockRecommendations,
     analytics |-> "demo",
     user_role |-> "student"]

\* {...a, ...b}
Spread(a, b) == [k \in DOMAIN a \cup DOMAIN b |-> IF k \in DOMAIN b THEN b[k] ELSE a[k]]

\* What getUserProgress / getRecommendations resolve to.  They catch every
\* failure (fetch throws, status not ok, json() throws) and resolve to null;
\* otherwise to the parsed payload, which may itself be null.
Pending == [t |-> "pending"]
Failed == [t |-> "null", why |-> "caught"]
Payload(fields) == [t |-> "object", fields |-> fields]

ProgressOutcomes ==
    {Failed, Null, Payload(NoFields),
     Payload([progress |-> [lessons_completed |-> "backend"]]),
     Payload([progress |-> [lessons_completed |-> "backend", current_streak |-> "backend"],
              recent_activity |-> "backend", achievements |-> "backend"])}

RecommendationsOutcomes ==
    {Failed, Null, Payload(NoFields), Payload([next_lessons |-> "backend"])}

\* if (res.status === "fulfilled" && res.value): both promises always fulfil
Truthy(res) == res.t = "object"

MutantCombineReplacesProgress(progressRes, recommendationsRes) ==
    IF Truthy(progressRes)
    THEN [generateMockData EXCEPT !.progress = Field(progressRes.fields, "progress")]
    ELSE generateMockData

\* Lines 338-355.
combinedData(progressRes, recommendationsRes) ==
    LET mockData == generateMockData
        withProgress ==
            IF Truthy(progressRes)
            THEN [mockData EXCEPT
                    !.progress =
                        IF "progress" \in DOMAIN progressRes.fields
                        THEN Spread(mockData.progress, progressRes.fields.progress)
                        ELSE mockData.progress,
                    !.recent_activity =
                        IF "recent_activity" \in DOMAIN progressRes.fields
                        THEN progressRes.fields.recent_activity
                        ELSE mockData.recent_activity,
                    !.achievements =
                        IF "achievements" \in DOMAIN progressRes.fields
                        THEN progressRes.fields.achievements
                        ELSE mockData.achievements]
            ELSE mockData
    IN  IF Truthy(recommendationsRes)
        THEN [withProgress EXCEPT
                !.recommendations =
                    Spread(withProgress.recommendations, recommendationsRes.fields)]
        ELSE withProgress

\* A new invocation, as it stands when it reaches its await or returns.
Invocation(user, showRefreshToast, pc) ==
    [user |-> user, refresh |-> showRefreshToast, pc |-> pc,
     progressRes |-> Pending, recommendationsRes |-> Pending]

\* fetchDashboardData up to its await (lines 319-336).
fetchDashboardData(user, showRefreshToast) ==
    IF user = NoSession
    THEN /\ dashboardData' = generateMockData
         /\ loading' = FALSE
         /\ runs' = Append(runs, Invocation(user, showRefreshToast, "done"))
         /\ UNCHANGED <<error, isRefreshing, toasts>>
    ELSE /\ IF showRefreshToast
            THEN isRefreshing' = TRUE /\ UNCHANGED loading
            ELSE loading' = TRUE /\ UNCHANGED isRefreshing
         /\ error' = Null
         /\ runs' = Append(runs, Invocation(user, showRefreshToast, "awaiting"))
         /\ UNCHANGED <<dashboardData, toasts>>

\* useEffect(() => { fetchDashboardData() }, [fetchDashboardData]) on mount
Mount ==
    /\ runs = <<>>
    /\ fetchDashboardData(session, FALSE)
    /\ UNCHANGED <<session, completionEvent, routeVars, careerVars, cardVars, learnVars, pageVars>>

\* The session changes (sign-in, sign-out, another user): the callback is
\* rebuilt and the effect runs it again.
SessionChanges ==
    \E s \in Users \cup {NoSession} :
        /\ runs # <<>>
        /\ Len(runs) < MaxRuns
        /\ s # session
        /\ session' = s
        /\ fetchDashboardData(s, FALSE)
        /\ UNCHANGED <<completionEvent, routeVars, careerVars, cardVars, learnVars, pageVars>>

\* getUserProgress(session.user.id) settles.
ProgressSettles ==
    \E r \in DOMAIN runs, outcome \in ProgressOutcomes :
        /\ runs[r].pc = "awaiting"
        /\ runs[r].progressRes = Pending
        /\ runs' = [runs EXCEPT ![r].progressRes = outcome]
        /\ UNCHANGED <<session, dashboardData, loading, error, isRefreshing, toasts,
                       completionEvent, routeVars, careerVars, cardVars, learnVars, pageVars>>

\* getRecommendations(session.user.id, "student", []) settles.
RecommendationsSettles ==
    \E r \in DOMAIN runs, outcome \in RecommendationsOutcomes :
        /\ runs[r].pc = "awaiting"
        /\ runs[r].recommendationsRes = Pending
        /\ runs' = [runs EXCEPT ![r].recommendationsRes = outcome]
        /\ UNCHANGED <<session, dashboardData, loading, error, isRefreshing, toasts,
                       completionEvent, routeVars, careerVars, cardVars, learnVars, pageVars>>

\* Promise.allSettled has both results: lines 338-378 run to the end.  Nothing
\* in the try throws, so the catch (the "Using Demo Data" toast) is not taken.
Resumes ==
    \E r \in DOMAIN runs :
        /\ runs[r].pc = "awaiting"
        /\ runs[r].progressRes # Pending
        /\ runs[r].recommendationsRes # Pending
        /\ dashboardData' = combinedData(runs[r].progressRes, runs[r].recommendationsRes)
        /\ toasts' = IF runs[r].refresh THEN Append(toasts, "Dashboard Updated") ELSE toasts
        /\ loading' = FALSE
        /\ isRefreshing' = FALSE
        /\ runs' = [runs EXCEPT ![r].pc = "done"]
        /\ UNCHANGED <<session, error, completionEvent, routeVars, careerVars, cardVars,
                       learnVars, pageVars>>

\* What a caller passes as lessonId and as progressPercentage (nothing, or a
\* number).
LessonIds == {"L1", "L2", "L3", "L4"}
ProgressPercentageInputs ==
    {None} \cup {Some(p) : p \in {-100, -5, -1, 0, 1, 50, 99, 101, 150, 1000}}

\* completeLesson (lines 36-45): the parameter defaults to 100.0 and goes
\* into the body as it is.  What the fetch answers is returned to the caller
\* and changes nothing on the page.
completeLesson(lessonId, userId, progressPercentage) ==
    /\ completionEvent' =
            [lessonId |-> lessonId,
             body |-> [user_id |-> userId,
                       progress_percentage |-> IF progressPercentage = None THEN 100
                                               ELSE progressPercentage[1]]]
    /\ UNCHANGED <<session, dashboardData, loading, error, isRefreshing, runs, toasts,
                   routeVars, careerVars, cardVars, learnVars, pageVars>>

(***************************************************************************)
(* UploadCard.  The file input is rendered only while no file is held      *)
(* (lines 48-57): a change event can only come then, and the input that is *)
(* rendered after a removal is a new, empty one.  The Process button is    *)
(* rendered only while a file is held (lines 68-87).                       *)
(***************************************************************************)
\* The most calls of onUpload that are followed.
MaxUploadCalls == 3

\* event.target.files?.[0]: nothing (the dialog was cancelled), or a file.
CardFiles ==
    {Undef,
     [name |-> "a.pdf", type |-> "application/pdf"],
     [name |-> "b.pdf", type |-> "application/pdf"],
     [name |-> "notes.txt", type |-> "text/plain"],
     [name |-> "c.pdf", type |-> ""]}

MutantFileChangeAcceptsAnyFile(file) ==
    /\ uploadedFile = Null
    /\ file # inputValue
    /\ IF file # Undef
       THEN uploadedFile' = file /\ inputValue' = Undef /\ UNCHANGED lastAlert
       ELSE /\ uploadedFile' = Null
            /\ inputValue' = file
            /\ lastAlert' = "Please select a PDF file."
    /\ UNCHANGED <<isUploading, onUploadCalls, routeVars, careerVars, dashVars, learnVars, pageVars>>

\* The change event of the file input: the selection differs from the one
\* the input held.
handleFileChange(file) ==
    /\ uploadedFile = Null
    /\ file # inputValue
    /\ IF file # Undef /\ file.type = "application/pdf"
       THEN uploadedFile' = file /\ inputValue' = Undef /\ UNCHANGED lastAlert
       ELSE /\ uploadedFile' = Null
            /\ inputValue' = file
            /\ lastAlert' = "Please select a PDF file."
    /\ UNCHANGED <<isUploading, onUploadCalls, routeVars, careerVars, dashVars, learnVars, pageVars>>

\* "Process PDF" (disabled while isUploading); with a file held the else
\* branch of line 33 is not taken.
handleUploadClick ==
    /\ uploadedFile # Null
    /\ ~isUploading
    /\ Len(onUploadCalls) < MaxUploadCalls
    /\ onUploadCalls' = Append(onUploadCalls, uploadedFile)
    /\ UNCHANGED <<uploadedFile, isUploading, inputValue, lastAlert,
                   routeVars, careerVars, dashVars, learnVars, pageVars>>

\* The X button; fileInputRef.current is null while a file is held.
handleRemoveFile ==
    /\ uploadedFile # Null
    /\ uploadedFile' = Null
    /\ inputValue' = Undef
    /\ UNCHANGED <<isUploading, onUploadCalls, lastAlert,
                   routeVars, careerVars, dashVars, learnVars, pageVars>>

\* The parent renders the card with another isUploading.
setIsUploading(value) ==
    /\ value # isUploading
    /\ isUploading' = value
    /\ UNCHANGED <<uploadedFile, inputValue, onUploadCalls, lastAlert,
                   routeVars, careerVars, dashVars, learnVars, pageVars>>

(***************************************************************************)
(* The learn page (LearnPage).  A call of handleFileUpload or of           *)
(* handleSendMessage runs to its first await, and goes on when the fetch   *)
(* it waits for settles; it keeps the applied settings of the render it    *)
(* was called in.  Message ids are the numbers Date.now() gave.  The       *)
(* messages typed hold no command word, so the message goes out as typed.  *)
(* Toasts are not state of the page and are left out.                      *)
(***************************************************************************)
\* The most calls of handleFileUpload and handleSendMessage that are followed.
MaxTasks == 2
\* The last millisecond, counted from the load of the page, that is followed.
MaxNow == 1

ExperienceLevels == {"beginner", "intermediate", "advanced", "expert"}
\* formData.append('explanation_level', ...) of line 136
UploadExplanationLevel(level) ==
    IF level = "beginner" THEN "5_year_old"
    ELSE IF level = "intermediate" THEN "intern" ELSE "senior"

MutantChatSendsLevelAsItIs(level) ==
    IF level = "beginner" THEN "5_year_old"
    ELSE IF level = "intermediate" THEN "intern" ELSE level

\* explanation_level: ... of line 240
ChatExplanationLevel(level) ==
    IF level = "beginner" THEN "5_year_old"
    ELSE IF level = "intermediate" THEN "intern" ELSE "senior"

\* The file lists a selection or a drop hands over; ref tells apart the
\* File objects of different selections.
FileLists(ref) ==
    { << [name |-> "a", ext |-> "pdf", type |-> "application/pdf", ref |-> <<ref, 1>>] >>,
      << [name |-> "b", ext |-> "png", type |-> "image/png", ref |-> <<ref, 1>>] >>,
      << [name |-> "a", ext |-> "pdf", type |-> "application/pdf", ref |-> <<ref, 1>>],
         [name |-> "c", ext |-> "md", type |-> "", ref |-> <<ref, 2>>] >> }

\* The filter of lines 102-104.
Accepted(file) ==
    file.type = "application/pdf" \/ file.type = "text/plain" \/ file.ext = "md"

\* What is typed into the message input.
InputMessages == {<<>>, <<Sp>>, <<"h", "i">>}

\* Date.now(): the clock has not gone back since it was last read.
Clock(t) == t \in now..MaxNow /\ now' = t

Message(id, sender, type) == [id |-> id, sender |-> sender, type |-> type]

\* handleFileUpload up to its first fetch (lines 100-139); the upload button
\* and the drop zone take files whether or not the page is loading. The
\* field before of the call records the two lists as the selection found
\* them; the code keeps no such record.
handleFileUpload(files) ==
    LET newFiles == SelectSeq(files, Accepted) IN
    /\ IF newFiles = <<>>
       THEN UNCHANGED <<messages, isLoading, uploadedFiles, now, tasks, started>>
       ELSE \E t \in 0..MaxNow :
            /\ started < MaxTasks
            /\ started' = started + 1
            /\ Clock(t)
            /\ uploadedFiles' = uploadedFiles \o newFiles
            /\ messages' = Append(messages, Message(t, "user", "file"))
            /\ isLoading' = TRUE
            /\ tasks' = Append(tasks,
                   [kind |-> "upload", files |-> newFiles, k |-> 1,
                    messageId |-> t, message |-> <<>>,
                    level |-> appliedExperienceLevel,
                    explanation_level |-> UploadExplanationLevel(appliedExperienceLevel),
                    framework |-> appliedFramework,
                    before |-> [messages |-> messages,
                                uploadedFiles |-> uploadedFiles]])
    /\ UNCHANGED <<inputMessage, experienceLevel, framework, appliedExperienceLevel,
                   appliedFramework, routeVars, careerVars, dashVars, cardVars, pageVars>>

\* The fetch of the file in turn settles (lines 144-177): on a good reply the
\* loop goes on to the next file or ends; any failure ends it in the catch.
\* A call that has ended is taken off tasks.
UploadSettles(i, outcome) ==
    LET task == tasks[i]
        NotOfThisBatch(f) == ~Includes(task.files, f)
        NotTheUploadMessage(m) == m.id # task.messageId
        ended == SubSeq(tasks, 1, i - 1) \o SubSeq(tasks, i + 1, Len(tasks))
    IN
    /\ task.kind = "upload"
    /\ IF outcome = "ok"
       THEN \E t \in 0..MaxNow :
            /\ Clock(t)
            /\ messages' = Append(messages, Message(t + 1, "ai", "none"))
            /\ IF task.k < Len(task.files)
               THEN /\ tasks' = [tasks EXCEPT ![i].k = task.k + 1]
                    /\ UNCHANGED isLoading
               ELSE /\ tasks' = ended
                    /\ isLoading' = FALSE
            /\ UNCHANGED uploadedFiles
       ELSE /\ messages' = SelectSeq(messages, NotTheUploadMessage)
            /\ uploadedFiles' = SelectSeq(uploadedFiles, NotOfThisBatch)
            /\ isLoading' = FALSE
            /\ tasks' = ended
            /\ UNCHANGED now
    /\ UNCHANGED <<started, inputMessage, experienceLevel, framework, appliedExperienceLevel,
                   appliedFramework, routeVars, careerVars, dashVars, cardVars, pageVars>>

removeUploadedFile(index) ==
    /\ index \in DOMAIN uploadedFiles
    /\ uploadedFiles' = SubSeq(uploadedFiles, 1, index - 1)
                            \o SubSeq(uploadedFiles, index + 1, Len(uploadedFiles))
    /\ UNCHANGED <<messages, inputMessage, isLoading, experienceLevel, framework,
                   appliedExperienceLevel, appliedFramework, now, tasks, started,
                   routeVars, careerVars, dashVars, cardVars, pageVars>>

\* handleSendMessage up to its fetch (lines 201-243).  The send button and
\* the input (Enter) are disabled while isLoading (lines 531, 535).
handleSendMessage ==
    \E t \in 0..MaxNow :
        /\ ~isLoading
        /\ ~(Trim(inputMessage) = <<>> /\ Len(uploadedFiles) = 0)
        /\ started < MaxTasks
        /\ started' = started + 1
        /\ Clock(t)
        /\ messages' = Append(messages, Message(t, "user", "text"))
        /\ inputMessage' = <<>>
        /\ isLoading' = TRUE
        /\ tasks' = Append(tasks,
               [kind |-> "chat", files |-> <<>>, k |-> 0,
                messageId |-> t, message |-> inputMessage,
                level |-> appliedExperienceLevel,
                explanation_level |-> ChatExplanationLevel(appliedExperienceLevel),
                framework |-> appliedFramework])
        /\ UNCHANGED <<uploadedFiles, experienceLevel, framework, appliedExperienceLevel,
                       appliedFramework, routeVars, careerVars, dashVars, cardVars, pageVars>>

\* The fetch of the chat request settles (lines 245-268).
ChatSettles(i, outcome) ==
    /\ tasks[i].kind = "chat"
    /\ IF outcome = "ok"
       THEN \E t \in 0..MaxNow :
            /\ Clock(t)
            /\ messages' = Append(messages, Message(t + 1, "ai", "none"))
       ELSE UNCHANGED <<messages, now>>
    /\ isLoading' = FALSE
    /\ tasks' = SubSeq(tasks, 1, i - 1) \o SubSeq(tasks, i + 1, Len(tasks))
    /\ UNCHANGED <<started, inputMessage, uploadedFiles, experienceLevel, framework,
                   appliedExperienceLevel, appliedFramework, routeVars, careerVars,
                   dashVars, cardVars, pageVars>>

\* onChange of the message input (disabled while isLoading)
setInputMessage(text) ==
    /\ ~isLoading
    /\ text # inputMessage
    /\ inputMessage' = text
    /\ UNCHANGED <<messages, isLoading, uploadedFiles, experienceLevel, framework,
                   appliedExperienceLevel, appliedFramework, now, tasks, started,
                   routeVars, careerVars, dashVars, cardVars, pageVars>>

handleClearChat ==
    /\ messages' = <<>>
    /\ uploadedFiles' = <<>>
    /\ UNCHANGED <<inputMessage, isLoading, experienceLevel, framework,
                   appliedExperienceLevel, appliedFramework, now, tasks, started,
                   routeVars, careerVars, dashVars, cardVars, pageVars>>

\* onValueChange of the experience-level select
setExperienceLevel(level) ==
    /\ level # experienceLevel
    /\ experienceLevel' = level
    /\ UNCHANGED <<messages, inputMessage, isLoading, uploadedFiles, framework,
                   appliedExperienceLevel, appliedFramework, now, tasks, started,
                   routeVars, careerVars, dashVars, cardVars, pageVars>>

\* The values of the framework select that are tried.
FrameworkInputs == {"general", "react", "python"}

\* onValueChange of the framework select
MutantSetFrameworkApplies(value) ==
    /\ value # framework
    /\ framework' = value
    /\ appliedFramework' = value
    /\ UNCHANGED <<messages, inputMessage, isLoading, uploadedFiles, experienceLevel,
                   appliedExperienceLevel, now, tasks, started,
                   routeVars, careerVars, dashVars, cardVars, pageVars>>
setFramework(value) ==
    /\ value # framework
    /\ framework' = value
    /\ UNCHANGED <<messages, inputMessage, isLoading, uploadedFiles, experienceLevel,
                   appliedExperienceLevel, appliedFramework, now, tasks, started,
                   routeVars, careerVars, dashVars, cardVars, pageVars>>

handleApplySettings ==
    /\ appliedExperienceLevel' = experienceLevel
    /\ appliedFramework' = framework
    /\ UNCHANGED <<messages, inputMessage, isLoading, uploadedFiles, experienceLevel,
                   framework, now, tasks, started, routeVars, careerVars, dashVars,
                   cardVars, pageVars>>

(***************************************************************************)
(* The career discovery page (src/app/career/discover/page.tsx, with the   *)
(* buttons of CareerStepper) and the assessment of the career page         *)
(* (src/app/career/page.tsx). A click is a discrete event: React has       *)
(* rendered its state updates before the next click is handled, so a       *)
(* handler reads the state the previous one left and a disabled button     *)
(* takes no click. The browser shows one page at a time; leaving a page    *)
(* unmounts it.                                                            *)
(***************************************************************************)
questions == [i \in 1..10 |-> [id |-> i]]
assessmentQuestions == [i \in 1..10 |-> [id |-> i]]

\* The ratings that are tried, of likertOptions "1" .. "5".
LikertInputs == {"1", "5"}

\* useState<Record<number, string>>({})
NoAnswers == [q \in {} |-> "1"]

\* What the fetch of the pathfinder can come to.
PathfinderOutcomes ==
    {FetchThrows, NotOk, OkBadJson, OkNull, OkObject(NoFields),
     OkObject([career_matches |-> JArr(<<"Data Scientist">>)])}

\* The try block of handleNext runs to its end.
PathfinderSucceeds(outcome) ==
    /\ outcome.kind = "response"
    /\ outcome.ok
    /\ outcome.json \in {"array", "object"}

\* The page shows the questions of the discovery page.
DiscoverQuestionsShown ==
    /\ path = "/career/discover"
    /\ ~discoverIsLoading
    /\ ~discoverShowResults

handleAnswerChange(questionId, value) ==
    /\ DiscoverQuestionsShown
    /\ discoverAnswers' = Spread(discoverAnswers, [q \in {questionId} |-> value])
    /\ UNCHANGED <<discoverCurrentStep, discoverCareers, discoverIsLoading,
                   discoverShowResults, discoverRequest, discoverOutcome>>
    /\ UNCHANGED <<path, assessmentVars, quizVars, roadmapVars>>
    /\ UNCHANGED <<routeVars, careerVars, dashVars, cardVars, learnVars>>

\* canGoNext
canGoNext == discoverCurrentStep \in DOMAIN discoverAnswers

\* The Next button of CareerStepper is enabled.
MutantNextWithoutAnswer == TRUE
NextEnabled == canGoNext

handleNext ==
    /\ DiscoverQuestionsShown
    /\ NextEnabled
    /\ IF discoverCurrentStep = Len(questions)
       THEN IF session = NoSession
            THEN /\ lastAlert' = "Please sign in to get your career matches"
                 /\ UNCHANGED discoverVars
            ELSE /\ discoverIsLoading' = TRUE
                 /\ discoverRequest' = [user_id |-> session,
                                        answers |-> discoverAnswers]
                 /\ discoverOutcome' = Pending
                 /\ UNCHANGED <<discoverCurrentStep, discoverAnswers, discoverCareers,
                                discoverShowResults, lastAlert>>
       ELSE /\ discoverCurrentStep' = discoverCurrentStep + 1
            /\ UNCHANGED <<discoverAnswers, discoverCareers, discoverIsLoading,
                           discoverShowResults, discoverRequest, discoverOutcome,
                           lastAlert>>
    /\ UNCHANGED <<uploadedFile, isUploading, inputValue, onUploadCalls>>
    /\ UNCHANGED <<path, assessmentVars, quizVars, roadmapVars>>
    /\ UNCHANGED <<routeVars, careerVars, dashVars, learnVars>>

\* The fetch of handleNext settles and the handler runs to its end.
MutantSettleShowsResultsAnyway(outcome) ==
    /\ path = "/career/discover"
    /\ discoverRequest # Null
    /\ discoverCareers' = <<>>
    /\ discoverShowResults' = TRUE
    /\ discoverIsLoading' = FALSE
    /\ discoverRequest' = Null
    /\ discoverOutcome' = outcome
    /\ UNCHANGED <<discoverCurrentStep, discoverAnswers>>
    /\ UNCHANGED <<path, assessmentVars, quizVars, roadmapVars>>
    /\ UNCHANGED <<routeVars, careerVars, dashVars, cardVars, learnVars>>
PathfinderSettles(outcome) ==
    /\ path = "/career/discover"
    /\ discoverRequest # Null
    /\ IF PathfinderSucceeds(outcome)
       THEN /\ discoverCareers' =
                   IF outcome.json = "object"
                   THEN OrElse(Field(outcome.data, "career_matches"), JArr(<<>>)).v
                   ELSE <<>>
            /\ discoverShowResults' = TRUE
            /\ UNCHANGED lastAlert
       ELSE /\ lastAlert' = "Failed to get career matches. Please try again."
            /\ UNCHANGED <<discoverCareers, discoverShowResults>>
    /\ discoverIsLoading' = FALSE
    /\ discoverRequest' = Null
    /\ discoverOutcome' = outcome
    /\ UNCHANGED <<discoverCurrentStep, discoverAnswers>>
    /\ UNCHANGED <<uploadedFile, isUploading, inputValue, onUploadCalls>>
    /\ UNCHANGED <<path, assessmentVars, quizVars, roadmapVars>>
    /\ UNCHANGED <<routeVars, careerVars, dashVars, learnVars>>

handlePrevious ==
    /\ DiscoverQuestionsShown
    /\ discoverCurrentStep # 1
    /\ discoverCurrentStep' = discoverCurrentStep - 1
    /\ UNCHANGED <<discoverAnswers, discoverCareers, discoverIsLoading,
                   discoverShowResults, discoverRequest, discoverOutcome>>
    /\ UNCHANGED <<path, assessmentVars, quizVars, roadmapVars>>
    /\ UNCHANGED <<routeVars, careerVars, dashVars, cardVars, learnVars>>

\* The button "Take Assessment Again" of the results.
TakeAssessmentAgain ==
    /\ path = "/career/discover"
    /\ ~discoverIsLoading
    /\ discoverShowResults
    /\ discoverShowResults' = FALSE
    /\ discoverCurrentStep' = 1
    /\ discoverAnswers' = NoAnswers
    /\ discoverCareers' = <<>>
    /\ UNCHANGED <<discoverIsLoading, discoverRequest, discoverOutcome>>
    /\ UNCHANGED <<path, assessmentVars, quizVars, roadmapVars>>
    /\ UNCHANGED <<routeVars, careerVars, dashVars, cardVars, learnVars>>

\* The page shows the questions of the assessment.
AssessmentQuestionsShown ==
    /\ path = "/career"
    /\ ~assessmentIsLoading
    /\ ~assessmentShowResults
    /\ showAssessment

\* The button "Start Assessment".
StartAssessment ==
    /\ path = "/career"
    /\ ~assessmentIsLoading
    /\ ~assessmentShowResults
    /\ ~showAssessment
    /\ showAssessment' = TRUE
    /\ UNCHANGED <<assessmentCurrentStep, assessmentAnswers, assessmentIsLoading,
                   assessmentShowResults, assessmentTimer>>
    /\ UNCHANGED <<path, discoverVars, quizVars, roadmapVars>>
    /\ UNCHANGED <<routeVars, careerVars, dashVars, cardVars, learnVars>>

\* handleAnswerChange of the career page, called with currentQuestion.id.
assessmentHandleAnswerChange(questionId, value) ==
    /\ AssessmentQuestionsShown
    /\ assessmentAnswers' = Spread(assessmentAnswers, [q \in {questionId} |-> value])
    /\ UNCHANGED <<showAssessment, assessmentCurrentStep, assessmentIsLoading,
                   assessmentShowResults, assessmentTimer>>
    /\ UNCHANGED <<path, discoverVars, quizVars, roadmapVars>>
    /\ UNCHANGED <<routeVars, careerVars, dashVars, cardVars, learnVars>>

\* handleNext of the career page; its button is disabled unless canGoNext.
assessmentHandleNext ==
    /\ AssessmentQuestionsShown
    /\ assessmentQuestions[assessmentCurrentStep + 1].id \in DOMAIN assessmentAnswers
    /\ IF assessmentCurrentStep < Len(assessmentQuestions) - 1
       THEN /\ assessmentCurrentStep' = assessmentCurrentStep + 1
            /\ UNCHANGED <<assessmentIsLoading, assessmentTimer>>
       ELSE /\ assessmentIsLoading' = TRUE
            /\ assessmentTimer' = TRUE
            /\ UNCHANGED assessmentCurrentStep
    /\ UNCHANGED <<showAssessment, assessmentAnswers, assessmentShowResults>>
    /\ UNCHANGED <<path, discoverVars, quizVars, roadmapVars>>
    /\ UNCHANGED <<routeVars, careerVars, dashVars, cardVars, learnVars>>

\* The timeout of handleNext fires.
AssessmentTimeout ==
    /\ path = "/career"
    /\ assessmentTimer
    /\ assessmentTimer' = FALSE
    /\ assessmentIsLoading' = FALSE
    /\ assessmentShowResults' = TRUE
    /\ UNCHANGED <<showAssessment, assessmentCurrentStep, assessmentAnswers>>
    /\ UNCHANGED <<path, discoverVars, quizVars, roadmapVars>>
    /\ UNCHANGED <<routeVars, careerVars, dashVars, cardVars, learnVars>>

\* handlePrevious of the career page; its button is disabled at step 0.
assessmentHandlePrevious ==
    /\ AssessmentQuestionsShown
    /\ assessmentCurrentStep # 0
    /\ assessmentCurrentStep' = assessmentCurrentStep - 1
    /\ UNCHANGED <<showAssessment, assessmentAnswers, assessmentIsLoading,
                   assessmentShowResults, assessmentTimer>>
    /\ UNCHANGED <<path, discoverVars, quizVars, roadmapVars>>
    /\ UNCHANGED <<routeVars, careerVars, dashVars, cardVars, learnVars>>

\* The button "Back to Career Tools" of the results.
BackToCareerTools ==
    /\ path = "/career"
    /\ ~assessmentIsLoading
    /\ assessmentShowResults
    /\ assessmentShowResults' = FALSE
    /\ showAssessment' = FALSE
    /\ assessmentCurrentStep' = 0
    /\ assessmentAnswers' = NoAnswers
    /\ UNCHANGED <<assessmentIsLoading, assessmentTimer>>
    /\ UNCHANGED <<path, discoverVars, quizVars, roadmapVars>>
    /\ UNCHANGED <<routeVars, careerVars, dashVars, cardVars, learnVars>>

\* The browser goes to the other page: the page left is unmounted, the page
\* entered is mounted with its initial state, and what the page left was
\* waiting for no longer reaches a component.
navigate(to) ==
    /\ to # path
    /\ path' = to
    /\ discoverCurrentStep' = 1
    /\ discoverAnswers' = NoAnswers
    /\ discoverCareers' = <<>>
    /\ discoverIsLoading' = FALSE
    /\ discoverShowResults' = FALSE
    /\ discoverRequest' = Null
    /\ discoverOutcome' = Null
    /\ showAssessment' = FALSE
    /\ assessmentCurrentStep' = 0
    /\ assessmentAnswers' = NoAnswers
    /\ assessmentIsLoading' = FALSE
    /\ assessmentShowResults' = FALSE
    /\ assessmentTimer' = FALSE
    /\ UNCHANGED <<quizVars, roadmapVars>>
    /\ UNCHANGED <<routeVars, careerVars, dashVars, cardVars, learnVars>>

(***************************************************************************)
(* QuizPlayer (src/unnamed/part_012). An option is a string, the empty     *)
(* string included; selectedOption is null or a string and is tested for   *)
(* truthiness, as the code tests it.                                       *)
(***************************************************************************)
MaxScore == 4

\* The quizzes a lesson is tried with.
Quizzes ==
    { << [options |-> <<"a", "b">>, answer |-> "a"],
         [options |-> <<"c", "d", "e">>, answer |-> "d"],
         [options |-> <<"f", "g">>, answer |-> "g"],
         [options |-> <<"h", "i", "j">>, answer |-> "h"] >>,
      << [options |-> <<"yes", "no">>, answer |-> "no"] >>,
      << [options |-> <<"p", "q">>, answer |-> "q"],
         [options |-> <<"p", "q">>, answer |-> "p"],
         [options |-> <<"r", "r">>, answer |-> "r"] >>,
      << [options |-> <<"", "x">>, answer |-> ""],
         [options |-> <<"y", "z">>, answer |-> "y"],
         [options |-> <<"", "w">>, answer |-> "w"] >> }

\* QuizPlayer is mounted for a lesson.
MountQuizPlayer(items) ==
    /\ quizItems' = items
    /\ currentIndex' = 0
    /\ selectedOption' = JNull
    /\ isCorrect' = JNull
    /\ score' = 0
    /\ quizShowResults' = FALSE
    /\ UNCHANGED <<path, discoverVars, assessmentVars, roadmapVars>>
    /\ UNCHANGED <<routeVars, careerVars, dashVars, cardVars, learnVars>>

currentQuestion == quizItems[currentIndex + 1]

\* The questions are on screen: there is a quiz and the results are not shown.
QuizQuestionShown == quizItems # <<>> /\ ~quizShowResults

\* onClick of an option button, which is disabled when selectedOption is truthy.
handleOptionSelect(option) ==
    /\ QuizQuestionShown
    /\ \E i \in DOMAIN currentQuestion.options : currentQuestion.options[i] = option
    /\ Falsy(selectedOption)
    /\ score < MaxScore
    /\ selectedOption' = JStr(option)
    /\ LET correct == option = currentQuestion.answer
       IN /\ isCorrect' = [t |-> "boolean", v |-> correct]
          /\ score' = IF correct THEN score + 1 ELSE score
    /\ UNCHANGED <<quizItems, currentIndex, quizShowResults>>
    /\ UNCHANGED <<path, discoverVars, assessmentVars, roadmapVars>>
    /\ UNCHANGED <<routeVars, careerVars, dashVars, cardVars, learnVars>>

\* handleNext of QuizPlayer; its button is rendered when selectedOption is truthy.
quizHandleNext ==
    /\ QuizQuestionShown
    /\ ~Falsy(selectedOption)
    /\ IF currentIndex < Len(quizItems) - 1
       THEN /\ currentIndex' = currentIndex + 1
            /\ selectedOption' = JNull
            /\ isCorrect' = JNull
            /\ UNCHANGED quizShowResults
       ELSE /\ quizShowResults' = TRUE
            /\ UNCHANGED <<currentIndex, selectedOption, isCorrect>>
    /\ UNCHANGED <<quizItems, score>>
    /\ UNCHANGED <<path, discoverVars, assessmentVars, roadmapVars>>
    /\ UNCHANGED <<routeVars, careerVars, dashVars, cardVars, learnVars>>

handleRestart ==
    /\ quizItems # <<>>
    /\ quizShowResults
    /\ currentIndex' = 0
    /\ selectedOption' = JNull
    /\ isCorrect' = JNull
    /\ score' = 0
    /\ quizShowResults' = FALSE
    /\ UNCHANGED quizItems
    /\ UNCHANGED <<path, discoverVars, assessmentVars, roadmapVars>>
    /\ UNCHANGED <<routeVars, careerVars, dashVars, cardVars, learnVars>>

(***************************************************************************)
(* The roadmap page (src/app/career/roadmap/page.tsx) and the              *)
(* RoadmapTimeline it shows (src/components/roadmap-timeline.tsx). The     *)
(* timeline is one component instance for as long as the page renders it;  *)
(* the loading, error and "no data" screens unmount it.                    *)
(***************************************************************************)
MaxFetches == 2

\* The career parameter of the URL: absent, not decodable as JSON, or a career.
CareerParams == {Undef, JStr("%7B"), JStr("Data Scientist"), JStr("UX Designer")}

\* JSON.parse(decodeURIComponent(careerParam)) throws.
ParseThrows(param) == param = JStr("%7B")

\* What the backend answers for a career: a roadmap of its own length.
RoadmapFor(career) ==
    [career |-> career,
     steps |-> IF career = "Data Scientist"
               THEN << [step |-> 1], [step |-> 2], [step |-> 3] >>
               ELSE << [step |-> 1], [step |-> 2] >>]

\* The page renders <RoadmapTimeline steps={roadmapData.steps} />.
TimelineShown(isLoading_, error_, data) ==
    ~isLoading_ /\ error_ = Null /\ data # Null

\* RoadmapTimeline keeps its state while it stays mounted.
TimelineState(isLoading_, error_, data) ==
    IF TimelineShown(isLoading_, error_, data)
          /\ TimelineShown(roadmapIsLoading, roadmapError, roadmapData)
    THEN completedSteps
    ELSE <<>>

\* The effect on [searchParams], with generateRoadmap up to its fetch.
SearchParamsChange(param) ==
    /\ param # searchParams
    /\ searchParams' = param
    /\ IF param = Undef
       THEN UNCHANGED <<roadmapIsLoading, roadmapError, roadmapFetches>>
       ELSE IF ParseThrows(param)
       THEN /\ roadmapError' = JStr("Invalid career data")
            /\ UNCHANGED <<roadmapIsLoading, roadmapFetches>>
       ELSE /\ Len(roadmapFetches) < MaxFetches
            /\ roadmapIsLoading' = TRUE
            /\ roadmapError' = Null
            /\ roadmapFetches' = Append(roadmapFetches, param.v)
    /\ UNCHANGED roadmapData
    /\ completedSteps' = TimelineState(roadmapIsLoading', roadmapError', roadmapData')
    /\ UNCHANGED <<path, discoverVars, assessmentVars, quizVars>>
    /\ UNCHANGED <<routeVars, careerVars, dashVars, cardVars, learnVars>>

\* The fetch of a call of generateRoadmap settles and the call runs to its end.
RoadmapSettles(i, outcome) ==
    /\ i \in DOMAIN roadmapFetches
    /\ IF outcome = "ok"
       THEN /\ roadmapData' = RoadmapFor(roadmapFetches[i])
            /\ UNCHANGED roadmapError
       ELSE /\ roadmapError' = JStr("Failed to generate roadmap. Please try again.")
            /\ UNCHANGED roadmapData
    /\ roadmapIsLoading' = FALSE
    /\ roadmapFetches' = [k \in 1..(Len(roadmapFetches) - 1) |->
                            IF k < i THEN roadmapFetches[k] ELSE roadmapFetches[k + 1]]
    /\ completedSteps' = TimelineState(roadmapIsLoading', roadmapError', roadmapData')
    /\ UNCHANGED searchParams
    /\ UNCHANGED <<path, discoverVars, assessmentVars, quizVars>>
    /\ UNCHANGED <<routeVars, careerVars, dashVars, cardVars, learnVars>>

\* onClick of the circle of a displayed step.
toggleStepCompletion(stepNumber) ==
    /\ TimelineShown(roadmapIsLoading, roadmapError, roadmapData)
    /\ \E i \in DOMAIN roadmapData.steps : roadmapData.steps[i].step = stepNumber
    /\ completedSteps' = IF Includes(completedSteps, stepNumber)
                         THEN Without(completedSteps, stepNumber)
                         ELSE Append(completedSteps, stepNumber)
    /\ UNCHANGED <<searchParams, roadmapData, roadmapIsLoading, roadmapError,
                   roadmapFetches>>
    /\ UNCHANGED <<path, discoverVars, assessmentVars, quizVars>>
    /\ UNCHANGED <<routeVars, careerVars, dashVars, cardVars, learnVars>>

(***************************************************************************)
(* Specifications                                                          *)
(***************************************************************************)
NoRequest == [route |-> "none"]

Init ==
    /\ request = NoRequest
    /\ response = [status |-> 0, json |-> FALSE, body |-> NoFields]
    /\ user_lessons = <<>>
    /\ savedConversations = {}
    /\ selectedSkills = <<>>
    /\ selectedInterests = <<>>
    /\ customSkill = <<>>
    /\ customInterest = <<>>
    /\ activeTab = "target"
    /\ queued = NothingQueued
    /\ shownSkills = getAvailableSkillSuggestions(<<>>)
    /\ shownInterests = getAvailableInterestSuggestions(<<>>)
    /\ session \in {NoSession, "u1"}
    /\ dashboardData = Null
    /\ loading = TRUE
    /\ error = Null
    /\ isRefreshing = FALSE
    /\ runs = <<>>
    /\ toasts = <<>>
    /\ completionEvent = Null
    /\ uploadedFile = Null
    /\ isUploading = FALSE
    /\ inputValue = Undef
    /\ onUploadCalls = <<>>
    /\ lastAlert = "none"
    /\ messages = <<>>
    /\ inputMessage = <<>>
    /\ isLoading = FALSE
    /\ uploadedFiles = <<>>
    /\ experienceLevel = "intermediate"
    /\ framework = "general"
    /\ appliedExperienceLevel = "intermediate"
    /\ appliedFramework = "general"
    /\ now = 0
    /\ tasks = <<>>
    /\ started = 0
    /\ path = "/career"
    /\ discoverCurrentStep = 1
    /\ discoverAnswers = NoAnswers
    /\ discoverCareers = <<>>
    /\ discoverIsLoading = FALSE
    /\ discoverShowResults = FALSE
    /\ discoverRequest = Null
    /\ discoverOutcome = Null
    /\ showAssessment = FALSE
    /\ assessmentCurrentStep = 0
    /\ assessmentAnswers = NoAnswers
    /\ assessmentIsLoading = FALSE
    /\ assessmentShowResults = FALSE
    /\ assessmentTimer = FALSE
    /\ quizItems = <<>>
    /\ currentIndex = 0
    /\ selectedOption = JNull
    /\ isCorrect = JNull
    /\ score = 0
    /\ quizShowResults = FALSE
    /\ searchParams = Undef
    /\ roadmapData = Null
    /\ roadmapIsLoading = FALSE
    /\ roadmapError = Null
    /\ roadmapFetches = <<>>
    /\ completedSteps = <<>>

NextRoutes ==
    \/ CareerMatchGET
    \/ CareerRoadmapGET
    \/ ChatSavePOST
    \/ ChatUploadPOST
    \/ LessonSavePOST
    \/ InterestsGET
    \/ SkillsGET
    \/ ChatPOST

NextCareer ==
    \/ \E i \in DOMAIN skillSuggestions : addSkill(skillSuggestions[i].name)
    \/ \E i \in DOMAIN selectedSkills : removeSkill(selectedSkills[i])
    \/ addCustomSkill
    \/ \E i \in DOMAIN interestSuggestions : addInterest(interestSuggestions[i].name)
    \/ \E i \in DOMAIN selectedInterests : removeInterest(selectedInterests[i])
    \/ addCustomInterest
    \/ \E text \in CustomSkillInputs : setCustomSkill(text)
    \/ \E text \in CustomInterestInputs : setCustomInterest(text)
    \/ \E tab \in TabNames : selectTab(tab)
    \/ Render

NextDashboard ==
    \/ Mount
    \/ SessionChanges
    \/ ProgressSettles
    \/ RecommendationsSettles
    \/ Resumes

\* completeLesson, called with every argument tried.
NextCompleteLesson ==
    \E lessonId \in LessonIds, userId \in Users, progressPercentage \in ProgressPercentageInputs :
        completeLesson(lessonId, userId, progressPercentage)

\* The chat of the learn page, with the settings left as they are.
NextLearn ==
    \/ \E files \in FileLists(started + 1) : handleFileUpload(files)
    \/ \E i \in DOMAIN tasks, outcome \in {"ok", "fails"} : UploadSettles(i, outcome)
    \/ \E index \in 1..(2 * MaxTasks) : removeUploadedFile(index)
    \/ handleSendMessage
    \/ \E i \in DOMAIN tasks, outcome \in {"ok", "fails"} : ChatSettles(i, outcome)
    \/ \E text \in InputMessages : setInputMessage(text)
    \/ handleClearChat

\* The experience level of the learn page and the requests that carry it;
\* the framework stays "general", nothing is removed or cleared, what is
\* selected is one file and what is typed is a message.
NextLearnSettings ==
    \/ \E level \in ExperienceLevels : setExperienceLevel(level)
    \/ handleApplySettings
    \/ \E files \in {fs \in FileLists(started + 1) : Len(fs) = 1} : handleFileUpload(files)
    \/ \E i \in DOMAIN tasks, outcome \in {"ok", "fails"} : UploadSettles(i, outcome)
    \/ \E text \in {m \in InputMessages : Trim(m) # <<>>} : setInputMessage(text)
    \/ handleSendMessage
    \/ \E i \in DOMAIN tasks, outcome \in {"ok", "fails"} : ChatSettles(i, outcome)

\* One batch of files at a time, selected while nothing is in flight, after
\* or before a message of the chat; nothing is removed or cleared.
NextUploadBatch ==
    \/ tasks = <<>> /\ \E files \in FileLists(started + 1) : handleFileUpload(files)
    \/ \E i \in DOMAIN tasks, outcome \in {"ok", "fails"} : UploadSettles(i, outcome)
    \/ \E text \in {m \in InputMessages : Trim(m) # <<>>} : setInputMessage(text)
    \/ handleSendMessage
    \/ \E i \in DOMAIN tasks, outcome \in {"ok", "fails"} : ChatSettles(i, outcome)

\* The two selects and the Apply button of the learn page, with the
\* messages of the chat that carry what was applied.
NextSettings ==
    \/ \E level \in ExperienceLevels : setExperienceLevel(level)
    \/ \E value \in FrameworkInputs : setFramework(value)
    \/ handleApplySettings
    \/ \E text \in {m \in InputMessages : Trim(m) # <<>>} : setInputMessage(text)
    \/ handleSendMessage
    \/ \E i \in DOMAIN tasks, outcome \in {"ok", "fails"} : ChatSettles(i, outcome)

NextUploadCard ==
    \/ \E file \in CardFiles : handleFileChange(file)
    \/ handleUploadClick
    \/ handleRemoveFile
    \/ \E value \in BOOLEAN : setIsUploading(value)

\* The route handlers and the career page do not read the session.
InitSignedOut == Init /\ session = NoSession

SpecRoutes == InitSignedOut /\ [][NextRoutes]_vars
SpecCareer == InitSignedOut /\ [][NextCareer]_vars
SpecLearn == InitSignedOut /\ [][NextLearn]_vars
SpecLearnSettings == InitSignedOut /\ [][NextLearnSettings]_vars
SpecUploadBatch == InitSignedOut /\ [][NextUploadBatch]_vars
SpecSettings == InitSignedOut /\ [][NextSettings]_vars
SpecUploadCard == InitSignedOut /\ [][NextUploadCard]_vars
SpecCompleteLesson == Init /\ [][NextCompleteLesson]_vars
SpecDashboard == Init /\ [][NextDashboard]_vars

\* The two assessments, on the page the browser shows.
NextWizards ==
    \/ \E to \in {"/career", "/career/discover"} : navigate(to)
    \/ \E value \in LikertInputs : handleAnswerChange(discoverCurrentStep, value)
    \/ handleNext
    \/ \E outcome \in PathfinderOutcomes : PathfinderSettles(outcome)
    \/ handlePrevious
    \/ TakeAssessmentAgain
    \/ StartAssessment
    \/ \E value \in LikertInputs :
           assessmentHandleAnswerChange(assessmentQuestions[assessmentCurrentStep + 1].id, value)
    \/ assessmentHandleNext
    \/ AssessmentTimeout
    \/ assessmentHandlePrevious
    \/ BackToCareerTools

SpecWizards == Init /\ [][NextWizards]_vars

NextQuiz ==
    \/ \E items \in Quizzes : MountQuizPlayer(items)
    \/ \E k \in DOMAIN quizItems : \E i \in DOMAIN quizItems[k].options :
           handleOptionSelect(quizItems[k].options[i])
    \/ quizHandleNext
    \/ handleRestart

SpecQuiz == InitSignedOut /\ [][NextQuiz]_vars

NextRoadmap ==
    \/ \E param \in CareerParams : SearchParamsChange(param)
    \/ \E i \in DOMAIN roadmapFetches, outcome \in {"ok", "fails"} : RoadmapSettles(i, outcome)
    \/ \E stepNumber \in 1..3 : toggleStepCompletion(stepNumber)

SpecRoadmap == InitSignedOut /\ [][NextRoadmap]_vars

(***************************************************************************)
(* Properties                                                              *)
(***************************************************************************)

\* C1: the careers returned by the career-match endpoint are in order of
\* non-increasing matchScore, and two careers with equal scores stand in
\* taxonomy order (the order of their ids).
TaxonomyOrder == <<"1", "2", "3", "4", "5">>
TaxonomyIndex(id) == CHOOSE k \in DOMAIN TaxonomyOrder : TaxonomyOrder[k] = id

TierOrder == <<"Foundational", "Intermediate", "Advanced">>

C3_ThreeTiersInOrder ==
    request.route = "career/roadmap" =>
        /\ response.status = 200
        /\ Len(response.body.milestones) = Len(TierOrder)
        /\ \A i \in DOMAIN TierOrder : response.body.milestones[i].level = TierOrder[i]

C3_Witness ==
    /\ request.route = "career/roadmap"
    /\ request.role = Undef
    /\ Len(response.body.milestones) = Len(TierOrder)

\* C4: a roadmap request naming a role that is no known role is refused
\* (UnknownRoleError), never answered with a roadmap.
UnrecognizedRole(role) == role.t = "string" /\ role.v # "" /\ role.v \notin KnownRoles

C4_UnknownRoleRefused ==
    (request.route = "career/roadmap" /\ UnrecognizedRole(request.role)) =>
        response.status # 200

\* C8: a parsed request that lacks a required field (the field is absent,
\* null or empty) is answered with status 400.  Bodies that do not parse to
\* an object or a form are another matter (they are answered 500).
Missing(x) == x = Undef \/ x = JNull \/ x = JStr("") \/ x = JArr(<<>>)

LacksRequiredField ==
    \/ /\ request.route = "chat/save"
       /\ request.body.parse = "object"
       /\ \/ Missing(request.body.fields.userId)
          \/ Missing(request.body.fields.conversationId)
          \/ Missing(request.body.fields.messages)
    \/ /\ request.route = "chat/upload"
       /\ request.form.parse = "form"
       /\ request.form.file = JNull
    \/ /\ request.route = "lessons/save"
       /\ request.body.parse = "object"
       /\ \/ Missing(request.body.fields.lesson_id)
          \/ Missing(request.body.fields.user_id)
          \/ Missing(request.body.fields.file_name)

ReturnedByHandler == response # Unhandled

C9_ErrorBodyHasMessageOrError ==
    (response.status >= 400 /\ ReturnedByHandler) =>
        /\ response.json
        /\ \/ "message" \in DOMAIN response.body
           \/ "error" \in DOMAIN response.body

\* C10: a lesson-save or chat-save request that is answered 400 leaves the
\* store as it was: no row is inserted, no conversation is saved.
C10_ValidationBeforeSideEffect ==
    [][ /\ (request'.route = "lessons/save" /\ response'.status = 400)
            => user_lessons' = user_lessons
        /\ (request'.route = "chat/save" /\ response'.status = 400)
            => savedConversations' = savedConversations ]_vars

C10_Witness ==
    /\ request.route = "lessons/save"
    /\ response.status = 400
    /\ Len(user_lessons) > 0
    /\ savedConversations # {}

\* C2: what the page offers as suggestions never holds a skill that is in
\* selectedSkills, nor an interest that is in selectedInterests.
C2_SuggestionsExcludeSelected ==
    /\ \A c \in DOMAIN shownSkills : \A i \in DOMAIN shownSkills[c] :
            ~Includes(selectedSkills, shownSkills[c][i])
    /\ \A i \in DOMAIN shownInterests : ~Includes(selectedInterests, shownInterests[i])

C2_Witness ==
    /\ selectedSkills = <<SQL>>
    /\ selectedInterests = <<Design>>
    /\ shownSkills = [c \in {"Technology", "Design"} |->
                        IF c = "Technology" THEN <<React>> ELSE <<Figma>>]
    /\ shownInterests = <<Finance>>

\* C7: selectedSkills and selectedInterests never hold the same string twice,
\* neither as rendered nor as queued by handlers that ran in the same render.
NoDuplicates(list) == \A i, j \in DOMAIN list : list[i] = list[j] => i = j

C7_NoDuplicateSelections ==
    /\ NoDuplicates(selectedSkills)
    /\ NoDuplicates(selectedInterests)
    /\ queued.selectedSkills # None => NoDuplicates(queued.selectedSkills[1])
    /\ queued.selectedInterests # None => NoDuplicates(queued.selectedInterests[1])

\* SQL is selected, " SQL " is typed, and a second handler of the same
\* render has replaced what the first one queued.
C7_Witness ==
    /\ selectedSkills = <<React, SQL>>
    /\ customSkill = <<Sp>> \o SQL \o <<Sp>>
    /\ queued.selectedSkills = Some(<<React>>)
    /\ Len(selectedInterests) > 0

\* C5: each run of fetchDashboardData ends with loading = false and a
\* complete dataset in dashboardData: a fetch that failed leaves the demo
\* values of its part, a fetch that succeeded overrides them; and the page is
\* never in the "Unable to load dashboard data" state (not loading, no data).
Complete(d) ==
    /\ d.t = "data"
    /\ DOMAIN MockProgress \subseteq DOMAIN d.progress
    /\ DOMAIN MockRecommendations \subseteq DOMAIN d.recommendations
    /\ DOMAIN generateMockData \subseteq DOMAIN d

RunEnds(r) ==
    /\ r \in DOMAIN runs'
    /\ runs'[r].pc = "done"
    /\ r \in DOMAIN runs => runs[r].pc = "awaiting"

EndsWell(r) ==
    /\ loading' = FALSE
    /\ Complete(dashboardData')
    /\ runs'[r].user = NoSession => dashboardData' = generateMockData
    /\ runs'[r].progressRes \in {Failed, JNull} =>
            /\ dashboardData'.progress = MockProgress
            /\ dashboardData'.recent_activity = "demo"
            /\ dashboardData'.achievements = "demo"
    /\ runs'[r].recommendationsRes \in {Failed, JNull} =>
            dashboardData'.recommendations = MockRecommendations
    /\ (runs'[r].progressRes.t = "object"
        /\ "progress" \in DOMAIN runs'[r].progressRes.fields) =>
            /\ dashboardData'.progress.lessons_completed = "backend"
            /\ dashboardData'.progress.current_streak
                    = Spread(MockProgress, runs'[r].progressRes.fields.progress).current_streak
    /\ (runs'[r].recommendationsRes.t = "object"
        /\ "next_lessons" \in DOMAIN runs'[r].recommendationsRes.fields) =>
            /\ dashboardData'.recommendations.next_lessons = "backend"
            /\ dashboardData'.recommendations.skill_gaps = "demo"

C5_EveryLoadEndsWithData ==
    /\ [][\A r \in DOMAIN runs' : RunEnds(r) => EndsWell(r)]_vars
    /\ [](~(loading = FALSE /\ dashboardData = Null))

\* The progress fetch failed and the recommendations fetch succeeded, and a
\* second run started while the first was in flight.
C5_Witness ==
    /\ Len(runs) = 2
    /\ runs[1].pc = "done"
    /\ runs[1].progressRes = Failed
    /\ runs[1].recommendationsRes = Payload([next_lessons |-> "backend"])
    /\ runs[2].pc = "done"
    /\ runs[2].progressRes.t = "object"
    /\ runs[2].recommendationsRes = Failed
    /\ loading = FALSE
    /\ dashboardData.recommendations.next_lessons = "backend"

\* C6: when both fetches of a run failed, the result is flagged as demo data
\* (the "Using Demo Data" toast), and is not announced as a successful update.
C6_UnreachableStoreIsFlagged ==
    \A r \in DOMAIN runs :
        (runs[r].pc = "done" /\ runs[r].progressRes = Failed
                             /\ runs[r].recommendationsRes = Failed) =>
            /\ \E i \in DOMAIN toasts : toasts[i] = "Using Demo Data"
            /\ \A i \in DOMAIN toasts : toasts[i] # "Dashboard Updated"

\* C11: when the insert of the lesson-save endpoint returns an error or
\* throws, the response is a 500 failure and never the "Lesson saved
\* successfully" response.
C11_InsertFailureIs500 ==
    (request.route = "lessons/save" /\ request.insert \in {"error", "throws"}) =>
        /\ response.status = 500
        /\ Field(response.body, "message") # "Lesson saved successfully"

C11_Witness ==
    /\ request.route = "lessons/save"
    /\ request.insert = "error"
    /\ response.status = 500
    /\ response.body.message = "Failed to save lesson"

\* C12: when the upstream backend is unreachable, throws or answers with a
\* non-OK status, GET /api/interests and GET /api/skills answer with a
\* success status, carry the fallback list, and flag it as fallback data.
UpstreamFailed(up) == up.kind = "throws" \/ ~up.ok

C12_ReadPathDegradesWithFlag ==
    /\ (request.route = "interests" /\ UpstreamFailed(request.upstream)) =>
            /\ response.status = 200
            /\ response.body.interests = fallbackInterests
            /\ Field(response.body, "source") = "fallback"
    /\ (request.route = "skills" /\ UpstreamFailed(request.upstream)
                                 /\ UpstreamFailed(request.frameworks)) =>
            /\ response.status = 200
            /\ response.body.skills = fallbackSkills
            /\ Field(response.body, "source") = "fallback"

\* C13: a failed streamText call of the chat endpoint is retried, up to the
\* retry count, before the 500 is returned: a 500 after a provider failure
\* has been preceded by 1 + LlmRetries calls.
LlmRetries == 2

C13_ProviderFailureIsRetried ==
    (request.route = "chat" /\ request.stream = "throws" /\ response.status = 500) =>
        request.streamCalls = 1 + LlmRetries

\* C15: a roadmap requested without a target role is the roadmap of the
\* top-ranked career of career discovery: the one with the highest score,
\* the earliest in taxonomy order among equals.
TopRanked(careers) ==
    CHOOSE i \in DOMAIN careers :
        \A j \in DOMAIN careers :
            \/ careers[i].matchScore > careers[j].matchScore
            \/ /\ careers[i].matchScore = careers[j].matchScore
               /\ TaxonomyIndex(careers[i].id) <= TaxonomyIndex(careers[j].id)

UpperLetters == <<"D", "E", "G", "I", "L", "N", "Q", "S">>
LowerLetters == <<"d", "e", "g", "i", "l", "n", "q", "s">>
ToLowerCase(s) ==
    [i \in DOMAIN s |->
        IF \E k \in DOMAIN UpperLetters : UpperLetters[k] = s[i]
        THEN LowerLetters[CHOOSE k \in DOMAIN UpperLetters : UpperLetters[k] = s[i]]
        ELSE s[i]]
NoCaseDuplicates(list) ==
    \A i, j \in DOMAIN list : ToLowerCase(list[i]) = ToLowerCase(list[j]) => i = j
MatchesSelected(name, selected) ==
    \E i \in DOMAIN selected : ToLowerCase(selected[i]) = ToLowerCase(name)

C17_MatchingIgnoresCase ==
    /\ NoCaseDuplicates(selectedSkills)
    /\ NoCaseDuplicates(selectedInterests)
    /\ \A c \in DOMAIN shownSkills : \A i \in DOMAIN shownSkills[c] :
            ~MatchesSelected(shownSkills[c][i], selectedSkills)
    /\ \A i \in DOMAIN shownInterests :
            ~MatchesSelected(shownInterests[i], selectedInterests)

\* C16: every request completeLesson sends carries a progress_percentage
\* within [0,100], whatever was passed as progressPercentage.
C16_CompletionPercentageInRange ==
    completionEvent # Null =>
        /\ completionEvent.body.progress_percentage >= 0
        /\ completionEvent.body.progress_percentage <= 100

\* C19: whatever was selected and removed, the file UploadCard holds is none
\* or a PDF, onUpload has only been called with PDFs, and while the input
\* holds a selection that is not a PDF no file is held.
IsPdf(file) == file.type = "application/pdf"

C18_LoadingWhileRequestInFlight ==
    tasks # <<>> => isLoading

\* C20: every request of the learn page carries one of the three documented
\* explanation levels, and an upload and a chat request sent under the same
\* applied experience level carry the same one.
DocumentedLevels == {"5_year_old", "intern", "senior"}

C29_ListIsNeverEmpty ==
    /\ request.route = "interests" => Len(response.body.interests) > 0
    /\ request.route = "skills" => Len(response.body.skills) > 0

\* The ids of all the questions of a list.
AllAnswered(list, answers) == \A i \in DOMAIN list : list[i].id \in DOMAIN answers

\* C21: driven through its enabled controls, the assessment keeps its current
\* step in range (1..10 on the discovery page, 0..9 on the career page) and
\* asks for results only when all ten questions have an answer.
C21_StepInRangeAndResultsNeedAllAnswers ==
    /\ discoverCurrentStep \in 1..Len(questions)
    /\ assessmentCurrentStep \in 0..(Len(assessmentQuestions) - 1)
    /\ discoverRequest # Null => AllAnswered(questions, discoverRequest.answers)
    /\ discoverIsLoading => AllAnswered(questions, discoverAnswers)
    /\ assessmentIsLoading \/ assessmentShowResults
          => AllAnswered(assessmentQuestions, assessmentAnswers)

\* Results have been asked for on the discovery page, after the user went
\* back and forth among the questions of both pages.
C21_Witness ==
    /\ discoverRequest # Null
    /\ discoverCurrentStep = Len(questions)
    /\ discoverAnswers[1] = "5"

\* A step in which the fetch of the discovery page settles in a failure.
SubmissionFails ==
    /\ discoverRequest # Null
    /\ discoverRequest' = Null
    /\ path' = path
    /\ ~PathfinderSucceeds(discoverOutcome')

\* A step in which the submission is refused for want of a signed-in user.
SubmissionRefused ==
    /\ lastAlert' = "Please sign in to get your career matches"
    /\ lastAlert' # lastAlert

\* C26: on the discovery page a submission that fails (nobody signed in, a
\* response that is not OK, a network error) leaves currentStep, answers,
\* careers and showResults as they were; isLoading is false once the attempt
\* has ended; and showResults is only ever set by a successful response.
C26_FailedSubmissionChangesNothing ==
    /\ [](discoverIsLoading <=> discoverRequest # Null)
    /\ [](discoverShowResults =>
            discoverOutcome \in PathfinderOutcomes /\ PathfinderSucceeds(discoverOutcome))
    /\ [][/\ SubmissionFails \/ SubmissionRefused =>
                /\ UNCHANGED <<discoverCurrentStep, discoverAnswers, discoverCareers,
                               discoverShowResults>>
                /\ ~discoverIsLoading'
          /\ ~discoverShowResults /\ discoverShowResults' =>
                /\ discoverRequest # Null
                /\ PathfinderSucceeds(discoverOutcome')]_vars

\* A submission of all ten answers has ended in a failure.
C26_Witness ==
    /\ discoverOutcome \in PathfinderOutcomes
    /\ ~PathfinderSucceeds(discoverOutcome)
    /\ discoverRequest = Null
    /\ discoverCurrentStep = Len(questions)
    /\ AllAnswered(questions, discoverAnswers)
    /\ lastAlert = "Failed to get career matches. Please try again."

\* The questions an option has been clicked for since the quiz was (re)started.
Answered == currentIndex + (IF selectedOption # JNull THEN 1 ELSE 0)

\* C22: in QuizPlayer the score is never negative, never above the number of
\* questions answered so far, and that number never above quizItems.length.
C22_ScoreWithinAnswered ==
    /\ 0 <= score
    /\ score <= Answered
    /\ Answered <= Len(quizItems)

\* C23: on the roadmap page, once every request has completed, what is shown
\* belongs to the request started last, whatever order the responses came
\* in: loading is over and a roadmap on display is that of the career the URL
\* names now.
C23_LatestRequestWins ==
    roadmapFetches = <<>> /\ searchParams.t = "string" /\ ~ParseThrows(searchParams)
        => /\ ~roadmapIsLoading
           /\ TimelineShown(roadmapIsLoading, roadmapError, roadmapData)
                 => roadmapData.career = searchParams.v

\* C28: the completed steps of RoadmapTimeline hold no step number twice and
\* only numbers of displayed steps, so there are never more of them than
\* steps and the progress shown is between 0% and 100%.
C28_CompletedStepsAreDisplayedSteps ==
    TimelineShown(roadmapIsLoading, roadmapError, roadmapData)
        => /\ NoDuplicates(completedSteps)
           /\ \A k \in DOMAIN completedSteps :
                 \E i \in DOMAIN roadmapData.steps :
                     roadmapData.steps[i].step = completedSteps[k]
           /\ Len(completedSteps) <= Len(roadmapData.steps)
           /\ (Len(completedSteps) * 100) \div Len(roadmapData.steps) \in 0..100

\* C25: the messages of the chat have pairwise distinct ids, whatever the
\* timing of the sends, the uploads and their replies.
C25_MessageIdsAreDistinct ==
    \A i, j \in DOMAIN messages : messages[i].id = messages[j].id => i = j

\* A step in which the only call in flight, an upload, ends in its catch: the
\* call is over and no message was added.
UploadFails ==
    /\ Len(tasks) = 1
    /\ tasks[1].kind = "upload"
    /\ tasks' = <<>>
    /\ Len(messages') <= Len(messages)

\* C24: when the upload of a batch fails at any of its files, messages and
\* uploadedFiles are again what they were when the batch was selected.
C24_FailedBatchIsRolledBack ==
    [][UploadFails =>
          /\ messages' = tasks[1].before.messages
          /\ uploadedFiles' = tasks[1].before.uploadedFiles]_vars

\* C27: on the learn page a change of the experience-level or framework
\* select leaves the applied settings as they are; the applied settings only
\* change to the values the selects hold when Apply is pressed; and a request
\* is sent with the settings applied at that moment.
C27_SettingsChangeOnlyOnApply ==
    [][/\ experienceLevel' # experienceLevel \/ framework' # framework
            => UNCHANGED <<appliedExperienceLevel, appliedFramework>>
       /\ appliedExperienceLevel' # appliedExperienceLevel
             \/ appliedFramework' # appliedFramework
            => /\ appliedExperienceLevel' = experienceLevel
               /\ appliedFramework' = framework
               /\ UNCHANGED <<experienceLevel, framework>>
       /\ Len(tasks') > Len(tasks)
            => /\ tasks'[Len(tasks')].level = appliedExperienceLevel
               /\ tasks'[Len(tasks')].framework = appliedFramework
               /\ UNCHANGED <<appliedExperienceLevel, appliedFramework>>]_vars

\* A request went out with the framework that had been applied, and the
\* selects have been changed since without pressing Apply.
C27_Witness ==
    /\ tasks # <<>>
    /\ tasks[1].framework = "react"
    /\ tasks[1].level = "expert"
    /\ appliedFramework = "react"
    /\ appliedExperienceLevel = "expert"
    /\ framework = "python"
    /\ experienceLevel = "beginner"

=============================================================================
